---- MODULE Spec2Model ----
(***************************************************************************)
(* BPR-MF with FGSM-like perturbations and adversarial training (APR), as  *)
(* written in main.ipynb: the class BPRMF and the notebook cells that      *)
(* drive it.                                                               *)
(*                                                                         *)
(* Tensors are functions row -> column -> number.  float32 values are kept *)
(* in fixed point: embeddings and perturbations in units of 1/EmbScale,    *)
(* scores in units of 1, sigmoid weights in units of 1/SigScale, gradients *)
(* in units of 1/(SigScale*EmbScale).  Every division rounds to nearest.   *)
(***************************************************************************)
EXTENDS Integers, Sequences, FiniteSets, TLC

\* ------------------------------------------------------------------ sizes
num_users == 2
num_items == 3
embedding_size == 2
epochs == 1
batch_size == 1
\* longest sequence of top-level calls a caller of the class makes
MaxCalls == 2
\* adversarial_epochs arguments a caller passes
AdvEpochChoices == {0, 1}

Users == 1..num_users
Items == 1..num_items
Dims == 1..embedding_size

\* ------------------------------------------------------- number formats
EmbScale == 20
SigScale == 1000000
UnitScale == 1000

Abs(x) == IF x < 0 THEN -x ELSE x

\* a / b rounded to nearest, b > 0
RoundDiv(a, b) == IF a >= 0 THEN (a + b \div 2) \div b ELSE -((-a + b \div 2) \div b)

\* a / b rounded toward zero, b > 0
TruncDiv(a, b) == IF a >= 0 THEN a \div b ELSE -((-a) \div b)

RECURSIVE SqrtSearch(_, _, _)
SqrtSearch(n, lo, hi) ==
  IF lo = hi THEN lo
  ELSE LET mid == (lo + hi + 1) \div 2
       IN IF mid * mid <= n THEN SqrtSearch(n, mid, hi) ELSE SqrtSearch(n, lo, mid - 1)

\* floor of the square root
ISqrt(n) == SqrtSearch(n, 0, 46340)

\* f[1] + ... + f[n]
RECURSIVE SumTo(_, _)
SumTo(f, n) == IF n = 0 THEN 0 ELSE f[n] + SumTo(f, n - 1)

SumSq(row) == SumTo([k \in DOMAIN row |-> row[k] * row[k]], embedding_size)

RECURSIVE MaxAbsTo(_, _)
MaxAbsTo(row, n) ==
  IF n = 0 THEN 0
  ELSE LET m == MaxAbsTo(row, n - 1)
       IN IF Abs(row[n]) > m THEN Abs(row[n]) ELSE m

MaxAbs(row) == MaxAbsTo(row, embedding_size)

\* the same vector / matrix, held as a table of its entries
Vector(v) == v @@ <<>>
Matrix(M) == [r \in DOMAIN M |-> M[r] @@ <<>>] @@ <<>>

Zeros(R, C) == [r \in R |-> [k \in C |-> 0]]
IsZeroRow(row) == \A k \in DOMAIN row : row[k] = 0
IsZero(M) == \A r \in DOMAIN M : IsZeroRow(M[r])
Shape(M) == [rows |-> DOMAIN M, cols |-> {DOMAIN M[r] : r \in DOMAIN M}]
MatScale(c, A) == [r \in DOMAIN A |-> [k \in DOMAIN A[r] |-> c * A[r][k]]]
MatAdd(A, B) == Matrix([r \in DOMAIN A |-> [k \in DOMAIN A[r] |-> A[r][k] + B[r][k]]])

\* ------------------------------------------------------------ constants
\* learning_rate 0.05, in embedding units
learning_rate == (5 * EmbScale) \div 100
reg == 0
adv_reg == 1
\* tf.clip_by_value(.., -80.0, 1e8)
ClipLow == -80
ClipHigh == 100000000
\* tf.nn.l2_normalize's epsilon, 1e-12, in squared gradient units; its root 1e-6
L2NormRoot == (SigScale * EmbScale) \div 1000000
L2NormEpsilon == L2NormRoot * L2NormRoot
\* Adagrad's initial_accumulator_value 0.1, in units of 1e-4
InitialAccumulator == 100000 \div 100
\* the notebook's epsilon = 0.5 and adversarial_epochs = 1
NotebookEpsilon == EmbScale \div 2
NotebookAdvEpochs == 1
\* epsilon arguments a caller passes to execute_adversarial_attack, 0.25 and
\* 0.5, and to adversarial_train, 0.5
Epsilons == {EmbScale \div 4, EmbScale \div 2}
TrainEpsilons == {EmbScale \div 2}

\* ------------------------------------------------------------------ data
\* One training interaction per user: user u rated item PosItem(u).
PosItem(u) == ((u - 1) % num_items) + 1
NumSamples == num_users
\* data.shuffle draws an order of the interactions and a negative item for each;
\* draw s rotates the order by s and takes the s-th item after the positive one.
Shuffles == {1, 2}
NegItem(u, s) == ((PosItem(u) - 1 + s) % num_items) + 1
SampleAt(n, s) ==
  LET u == ((n - 1 + s) % num_users) + 1
  IN [u |-> u, i |-> PosItem(u), j |-> NegItem(u, s)]
NumBatches(bs) == (NumSamples + bs - 1) \div bs
Min(a, b) == IF a < b THEN a ELSE b
\* data.shuffle(bs): the batches of one epoch, each a sequence of (u, i, j)
Shuffle(s, bs) ==
  [b \in 1..NumBatches(bs) |->
     [n \in 1..(Min(b * bs, NumSamples) - (b - 1) * bs) |-> SampleAt((b - 1) * bs + n, s)]]

\* -------------------------------------------------------------- the model
\* sigmoid(-x) in units of 1/SigScale, x a score difference in units of 1
SigmoidTable ==
  <<1000000, 1000000, 999999, 999998, 999994, 999983, 999955, 999877, 999665,
    999089, 997527, 993307, 982014, 952574, 880797, 731059, 500000, 268941,
    119203, 47426, 17986, 6693, 2473, 911, 335, 123, 45, 17, 6, 2, 1, 0, 0>>
SigmoidNeg(x) == IF x < -16 THEN SigScale ELSE IF x > 16 THEN 0 ELSE SigmoidTable[x + 17]

\* get_inference: the scores of the pairs (users[b], items[b]) under the
\* perturbed embeddings, sum_k (P + dP)[u][k] * (Q + dQ)[i][k]
get_inference(P, Q, dP, dQ, users, items) ==
  LET Pe == MatAdd(P, dP)
      Qe == MatAdd(Q, dQ)
  IN Vector([b \in DOMAIN users |->
        RoundDiv(SumTo([k \in Dims |-> Pe[users[b]][k] * Qe[items[b]][k]], embedding_size),
                 EmbScale * EmbScale)])

\* get_full_inference: every user against every item
get_full_inference(P, Q, dP, dQ) ==
  LET Pe == MatAdd(P, dP)
      Qe == MatAdd(Q, dQ)
  IN Matrix([u \in Users |-> [i \in Items |->
        RoundDiv(SumTo([k \in Dims |-> Pe[u][k] * Qe[i][k]], embedding_size),
                 EmbScale * EmbScale)]])

\* a clip that has no lower end
ClipLoose(x, lo, hi) == IF x > hi THEN hi ELSE x
\* tf.clip_by_value
clip_by_value(x, lo, hi) == IF x < lo THEN lo ELSE IF x > hi THEN hi ELSE x

UsersOf(batch) == [b \in DOMAIN batch |-> batch[b].u]
PosOf(batch) == [b \in DOMAIN batch |-> batch[b].i]
NegOf(batch) == [b \in DOMAIN batch |-> batch[b].j]

\* self.result: the clipped score differences of a batch
Result(pos, neg) ==
  Vector([b \in DOMAIN pos |-> clip_by_value(pos[b] - neg[b], ClipLow, ClipHigh)])
\* the tensor handed to tf.nn.softplus
SoftplusInput(res) == [b \in DOMAIN res |-> -res[b]]

\* d loss / d (output_pos - output_neg) of one sample, negated: softplus' is the
\* sigmoid, and clip_by_value passes no gradient outside [ClipLow, ClipHigh]
Weight(diff) == IF diff < ClipLow \/ diff > ClipHigh THEN 0 ELSE SigmoidNeg(diff)

\* tape.gradient(sum softplus(-result) + reg * mean(squares), [embedding_P,
\* embedding_Q]) for one forward pass over batch made with perturbations dP, dQ.
\* The regularizer's part is a multiple of reg, which is 0.
GradLoss(batch, P, Q, dP, dQ) ==
  LET Pe == MatAdd(P, dP)
      Qe == MatAdd(Q, dQ)
      pos == get_inference(P, Q, dP, dQ, UsersOf(batch), PosOf(batch))
      neg == get_inference(P, Q, dP, dQ, UsersOf(batch), NegOf(batch))
      w == Vector([b \in DOMAIN batch |-> Weight(pos[b] - neg[b])])
      B == DOMAIN batch
  IN [P |-> Matrix([u \in Users |-> [k \in Dims |->
               SumTo([b \in B |-> IF batch[b].u = u
                                  THEN -w[b] * (Qe[batch[b].i][k] - Qe[batch[b].j][k]) +
                                       2 * reg * Pe[u][k]
                                  ELSE 0], Len(batch))]]),
      Q |-> Matrix([i \in Items |-> [k \in Dims |->
               SumTo([b \in B |->
                        (IF batch[b].i = i
                         THEN -w[b] * Pe[batch[b].u][k] + 2 * reg * Qe[i][k] ELSE 0) +
                        (IF batch[b].j = i
                         THEN w[b] * Pe[batch[b].u][k] + 2 * reg * Qe[i][k] ELSE 0)],
                     Len(batch))]])]

\* the gradient of the sum of the losses recorded on the tape, each times its
\* factor in the loss that is differentiated
RECURSIVE TapeGradient(_, _, _)
TapeGradient(tp, P, Q) ==
  IF tp = <<>> THEN [P |-> Zeros(Users, Dims), Q |-> Zeros(Items, Dims)]
  ELSE LET g == GradLoss(Head(tp).batch, P, Q, Head(tp).dP, Head(tp).dQ)
           r == TapeGradient(Tail(tp), P, Q)
       IN [P |-> MatAdd(MatScale(Head(tp).scale, g.P), r.P),
           Q |-> MatAdd(MatScale(Head(tp).scale, g.Q), r.Q)]

\* the sign of every entry, as the sign method of FGSM takes it
SignRows(G) ==
  [r \in DOMAIN G |-> [k \in DOMAIN G[r] |->
     IF G[r][k] > 0 THEN UnitScale ELSE IF G[r][k] < 0 THEN -UnitScale ELSE 0]]
\* tf.nn.l2_normalize(G, 1): each row divided by sqrt(max(sum of squares,
\* epsilon)), in units of 1/UnitScale.  A long row is first scaled down, which
\* leaves its direction.
l2_normalize(G) ==
  [r \in DOMAIN G |->
     LET K == MaxAbs(G[r]) \div 1000 + 1
         row == Vector([k \in DOMAIN G[r] |-> TruncDiv(G[r][k], K)])
         sq == SumSq(row)
         m == IF sq < L2NormEpsilon THEN L2NormEpsilon ELSE sq
         root == ISqrt(256 * m)
     IN [k \in DOMAIN row |-> RoundDiv(row[k] * UnitScale * 16, root)]]

\* l2_normalize(G, 1) * epsilon, in embedding units
Perturbation(G, eps) ==
  LET N == Matrix(l2_normalize(G))
  IN Matrix([r \in DOMAIN N |-> [k \in DOMAIN N[r] |-> RoundDiv(N[r][k] * eps, UnitScale)]])

\* Adagrad: accumulator += g^2; variable -= learning_rate * g / sqrt(accumulator)
\* g in units of 0.01, accumulator in units of 1e-4
GradCenti(G) ==
  Matrix([r \in DOMAIN G |-> [k \in DOMAIN G[r] |->
     RoundDiv(G[r][k], (SigScale * EmbScale) \div 100)]])
AdagradAccum(acc, G) ==
  LET g == GradCenti(G)
  IN Matrix([r \in DOMAIN acc |-> [k \in DOMAIN acc[r] |-> acc[r][k] + g[r][k] * g[r][k]]])
AdagradVar(var, acc, G) ==
  LET g == GradCenti(G)
      a == AdagradAccum(acc, G)
  IN Matrix([r \in DOMAIN var |-> [k \in DOMAIN var[r] |->
        var[r][k] - RoundDiv(learning_rate * g[r][k] * 16, ISqrt(256 * a[r][k]))]])

\* ------------------------------------------------------------------ state
VARIABLES
  embedding_P, embedding_Q,   \* the model's parameters
  delta_P, delta_Q,           \* the perturbations
  accum_P, accum_Q,           \* the optimizer's accumulators
  iterations,                 \* the optimizer's step count
  pc,                         \* where the running method is
  epoch, batch_idx, batches,  \* the loops of train / adversarial_train
  epsilon, adversarial_epochs,\* the arguments of the running (or last) call
  tape,                       \* the forward passes the open GradientTape holds
  output_pos, output_neg, result, result_adver, \* self.output_pos, ... of the last step
  attack_epsilon, attack_batch, attack_result, grad_P, grad_Q, \* locals of the last attack
  delta_writer,               \* the method that last assigned delta_P and delta_Q
  predictions,                \* what the last evaluation scored
  log,                        \* the top-level steps started so far, in order
  returned                    \* the top-level step that returned last

params == <<embedding_P, embedding_Q>>
optimizer == <<accum_P, accum_Q, iterations>>
deltas == <<delta_P, delta_Q, delta_writer>>
loops == <<epoch, batch_idx, batches>>
arguments == <<epsilon, adversarial_epochs>>
forward == <<output_pos, output_neg, result, result_adver>>
attack_locals == <<attack_epsilon, attack_batch, attack_result, grad_P, grad_Q>>
vars == <<embedding_P, embedding_Q, delta_P, delta_Q, accum_P, accum_Q, iterations, pc,
          epoch, batch_idx, batches, epsilon, adversarial_epochs, tape, output_pos,
          output_neg, result, result_adver, attack_epsilon, attack_batch, attack_result,
          grad_P, grad_Q,
          delta_writer, predictions, log, returned>>

\* initialize_model_parameters draws both matrices at random.  Two draws on
\* the fixed-point grid are taken.  Draw 1 has small values around zero.  Draw
\* 2 has large ones: odd users at 0.5 and even users at 7, odd items at 7 and
\* even items at -7, which ranks an odd user's item far above an even item and
\* an even user's item far below an odd one.  A step of the optimizer moves a
\* parameter by at most learning_rate, so draw 2 stands for the parameters
\* long training arrives at.
Draws == {1, 2}
DrawP(d) ==
  [u \in Users |-> [k \in Dims |->
     IF d = 1 THEN ((u + 2 * k) % 5) - 2
     ELSE IF u % 2 = 1 THEN EmbScale \div 2 ELSE 7 * EmbScale]]
DrawQ(d) ==
  [i \in Items |-> [k \in Dims |->
     IF d = 1 THEN ((2 * i + k) % 5) - 2
     ELSE IF i % 2 = 1 THEN 7 * EmbScale ELSE -(7 * EmbScale)]]

\* perturbations with the two shapes exchanged
initialize_perturbations_swapped == [P |-> Zeros(Items, Dims), Q |-> Zeros(Users, Dims)]
\* initialize_perturbations: fresh all-zero delta_P and delta_Q
initialize_perturbations == [P |-> Zeros(Users, Dims), Q |-> Zeros(Items, Dims)]

Init ==
  /\ \E d \in Draws : embedding_P = DrawP(d) /\ embedding_Q = DrawQ(d)
  /\ delta_P = initialize_perturbations.P
  /\ delta_Q = initialize_perturbations.Q
  /\ delta_writer = "initialize_perturbations"
  /\ accum_P = [u \in Users |-> [k \in Dims |-> InitialAccumulator]]
  /\ accum_Q = [i \in Items |-> [k \in Dims |-> InitialAccumulator]]
  /\ iterations = 0
  /\ pc = "idle"
  /\ epoch = 0 /\ batch_idx = 0 /\ batches = <<>>
  /\ epsilon = 0 /\ adversarial_epochs = 0
  /\ tape = <<>>
  /\ output_pos = <<>> /\ output_neg = <<>> /\ result = <<>> /\ result_adver = <<>>
  /\ attack_epsilon = 0 /\ attack_batch = <<>> /\ attack_result = <<>>
  /\ grad_P = Zeros(Users, Dims) /\ grad_Q = Zeros(Items, Dims)
  /\ predictions = <<>>
  /\ log = <<"load_data", "construct_model">>
  /\ returned = "construct_model"

\* ---------------------------------------------------------------- methods
\* an attack that also adds the perturbation into the embeddings
ExecuteAttackInPlace(s, eps) ==
  LET batch == Shuffle(s, NumSamples)[1]
      z == initialize_perturbations
      pos == get_inference(embedding_P, embedding_Q, z.P, z.Q, UsersOf(batch), PosOf(batch))
      neg == get_inference(embedding_P, embedding_Q, z.P, z.Q, UsersOf(batch), NegOf(batch))
      g == GradLoss(batch, embedding_P, embedding_Q, z.P, z.Q)
  IN /\ attack_epsilon' = eps
     /\ attack_batch' = batch
     /\ attack_result' = Result(pos, neg)
     /\ grad_P' = g.P
     /\ grad_Q' = g.Q
     /\ delta_P' = Perturbation(g.P, eps)
     /\ delta_Q' = Perturbation(g.Q, eps)
     /\ delta_writer' = "execute_adversarial_attack"
     /\ embedding_P' = MatAdd(embedding_P, Perturbation(g.P, eps))
     /\ embedding_Q' = MatAdd(embedding_Q, Perturbation(g.Q, eps))
\* execute_adversarial_attack(epsilon), with shuffle draw s: one batch of all the
\* interactions, fresh zero perturbations, the gradient of the loss, and the
\* perturbations l2_normalize(gradient, 1) * epsilon
execute_adversarial_attack(s, eps) ==
  LET batch == Shuffle(s, NumSamples)[1]
      z == initialize_perturbations
      pos == get_inference(embedding_P, embedding_Q, z.P, z.Q, UsersOf(batch), PosOf(batch))
      neg == get_inference(embedding_P, embedding_Q, z.P, z.Q, UsersOf(batch), NegOf(batch))
      g == GradLoss(batch, embedding_P, embedding_Q, z.P, z.Q)
  IN /\ attack_epsilon' = eps
     /\ attack_batch' = batch
     /\ attack_result' = Result(pos, neg)
     /\ grad_P' = g.P
     /\ grad_Q' = g.Q
     /\ delta_P' = Perturbation(g.P, eps)
     /\ delta_Q' = Perturbation(g.Q, eps)
     /\ delta_writer' = "execute_adversarial_attack"
     /\ UNCHANGED params

\* optimizer.apply_gradients(zip(gradients, [embedding_P, embedding_Q]))
apply_gradients(g) ==
  /\ embedding_P' = AdagradVar(embedding_P, accum_P, g.P)
  /\ embedding_Q' = AdagradVar(embedding_Q, accum_Q, g.Q)
  /\ accum_P' = AdagradAccum(accum_P, g.P)
  /\ accum_Q' = AdagradAccum(accum_Q, g.Q)
  /\ iterations' = iterations + 1

\* ---- train()
BeginTrain ==
  /\ pc = "idle"
  /\ pc' = "train_epoch"
  /\ epoch' = 0
  /\ UNCHANGED <<params, optimizer, deltas, batch_idx, batches, arguments, tape, forward,
                 attack_locals, predictions, returned>>

\* for epoch in range(self.epochs): batches = self.data.shuffle(self.batch_size)
TrainShuffle ==
  /\ pc = "train_epoch"
  /\ epoch < epochs
  /\ \E s \in Shuffles : batches' = Shuffle(s, batch_size)
  /\ batch_idx' = 0
  /\ pc' = "train_batch"
  /\ UNCHANGED <<params, optimizer, deltas, epoch, arguments, tape, forward, attack_locals,
                 predictions, log, returned>>

TrainReturn ==
  /\ pc = "train_epoch"
  /\ epoch = epochs
  /\ pc' = "idle"
  /\ returned' = "train"
  /\ UNCHANGED <<params, optimizer, deltas, loops, arguments, tape, forward, attack_locals,
                 predictions, log>>

\* _train_step, one batch: the two inferences, the clip and the loss
TrainInference ==
  /\ pc = "train_batch"
  /\ batch_idx < Len(batches)
  /\ LET batch == batches[batch_idx + 1]
         pos == get_inference(embedding_P, embedding_Q, delta_P, delta_Q,
                              UsersOf(batch), PosOf(batch))
         neg == get_inference(embedding_P, embedding_Q, delta_P, delta_Q,
                              UsersOf(batch), NegOf(batch))
     IN /\ output_pos' = pos
        /\ output_neg' = neg
        /\ result' = Result(pos, neg)
        /\ tape' = <<[batch |-> batch, dP |-> delta_P, dQ |-> delta_Q, scale |-> 1]>>
  /\ pc' = "train_apply"
  /\ UNCHANGED <<params, optimizer, deltas, loops, arguments, result_adver, attack_locals,
                 predictions, log, returned>>

\* _train_step, one batch: t.gradient and optimizer.apply_gradients
TrainApplyGradients ==
  /\ pc = "train_apply"
  /\ apply_gradients(TapeGradient(tape, embedding_P, embedding_Q))
  /\ tape' = <<>>
  /\ batch_idx' = batch_idx + 1
  /\ pc' = "train_batch"
  /\ UNCHANGED <<deltas, epoch, batches, arguments, forward, attack_locals, predictions,
                 log, returned>>

\* _train_step returns when the batches are used up
TrainStepEnd ==
  /\ pc = "train_batch"
  /\ batch_idx = Len(batches)
  /\ epoch' = epoch + 1
  /\ pc' = "train_epoch"
  /\ UNCHANGED <<params, optimizer, deltas, batch_idx, batches, arguments, tape, forward,
                 attack_locals, predictions, log, returned>>

\* ---- adversarial_train(adversarial_epochs, epsilon)
BeginAdversarialTrain(n, eps) ==
  /\ pc = "idle"
  /\ adversarial_epochs' = n
  /\ epsilon' = eps
  /\ epoch' = 0
  /\ pc' = "adv_epoch"
  /\ UNCHANGED <<params, optimizer, deltas, batch_idx, batches, tape, forward, attack_locals,
                 predictions, returned>>

\* for epoch in range(adversarial_epochs): batches = self.data.shuffle(self.batch_size)
AdvShuffle ==
  /\ pc = "adv_epoch"
  /\ epoch < adversarial_epochs
  /\ \E s \in Shuffles : batches' = Shuffle(s, batch_size)
  /\ batch_idx' = 0
  /\ pc' = "adv_clean"
  /\ UNCHANGED <<params, optimizer, deltas, epoch, arguments, tape, forward, attack_locals,
                 predictions, log, returned>>

AdvReturn ==
  /\ pc = "adv_epoch"
  /\ epoch = adversarial_epochs
  /\ pc' = "idle"
  /\ returned' = "adversarial_train"
  /\ UNCHANGED <<params, optimizer, deltas, loops, arguments, tape, forward, attack_locals,
                 predictions, log>>

\* _adversarial_train_step, one batch: "Model Inference", giving self.loss
AdvCleanInference ==
  /\ pc = "adv_clean"
  /\ batch_idx < Len(batches)
  /\ LET batch == batches[batch_idx + 1]
         pos == get_inference(embedding_P, embedding_Q, delta_P, delta_Q,
                              UsersOf(batch), PosOf(batch))
         neg == get_inference(embedding_P, embedding_Q, delta_P, delta_Q,
                              UsersOf(batch), NegOf(batch))
     IN /\ output_pos' = pos
        /\ output_neg' = neg
        /\ result' = Result(pos, neg)
        /\ tape' = <<[batch |-> batch, dP |-> delta_P, dQ |-> delta_Q, scale |-> 1]>>
  /\ pc' = "adv_attack"
  /\ UNCHANGED <<params, optimizer, deltas, loops, arguments, result_adver, attack_locals,
                 predictions, log, returned>>

\* an attack step that keeps a perturbation already in place
AdvAttackReused ==
  /\ pc = "adv_attack"
  /\ IF IsZero(delta_P) /\ IsZero(delta_Q)
     THEN \E s \in Shuffles : execute_adversarial_attack(s, epsilon)
     ELSE UNCHANGED <<params, deltas, attack_locals>>
  /\ pc' = "adv_perturbed"
  /\ UNCHANGED <<optimizer, loops, arguments, tape, forward, predictions, log, returned>>
\* _adversarial_train_step, one batch: self.execute_adversarial_attack(epsilon)
AdvAttack ==
  /\ pc = "adv_attack"
  /\ \E s \in Shuffles : execute_adversarial_attack(s, epsilon)
  /\ pc' = "adv_perturbed"
  /\ UNCHANGED <<optimizer, loops, arguments, tape, forward, predictions, log, returned>>

\* _adversarial_train_step, one batch: "Inference on the Adversarial Perturbed
\* Model", giving self.loss_adver
AdvPerturbedInference ==
  /\ pc = "adv_perturbed"
  /\ LET batch == batches[batch_idx + 1]
         pos == get_inference(embedding_P, embedding_Q, delta_P, delta_Q,
                              UsersOf(batch), PosOf(batch))
         neg == get_inference(embedding_P, embedding_Q, delta_P, delta_Q,
                              UsersOf(batch), NegOf(batch))
     IN /\ result_adver' = Result(pos, neg)
        /\ tape' = Append(tape, [batch |-> batch, dP |-> delta_P, dQ |-> delta_Q,
                                scale |-> adv_reg])
  /\ pc' = "adv_apply"
  /\ UNCHANGED <<params, optimizer, deltas, loops, arguments, output_pos, output_neg, result,
                 attack_locals, predictions, log, returned>>

\* _adversarial_train_step, one batch: t.gradient(self.amf_loss, ..) and
\* optimizer.apply_gradients
AdvApplyGradients ==
  /\ pc = "adv_apply"
  /\ apply_gradients(TapeGradient(tape, embedding_P, embedding_Q))
  /\ tape' = <<>>
  /\ batch_idx' = batch_idx + 1
  /\ pc' = "adv_clean"
  /\ UNCHANGED <<deltas, epoch, batches, arguments, forward, attack_locals, predictions,
                 log, returned>>

\* a step end that leaves the perturbations in place
AdvStepEndKeep ==
  /\ pc = "adv_clean"
  /\ batch_idx = Len(batches)
  /\ epoch' = epoch + 1
  /\ pc' = "adv_epoch"
  /\ UNCHANGED <<params, optimizer, deltas, batch_idx, batches, arguments, tape, forward,
                 attack_locals, predictions, log, returned>>
\* _adversarial_train_step, after the batches: self.initialize_perturbations()
AdvStepEnd ==
  /\ pc = "adv_clean"
  /\ batch_idx = Len(batches)
  /\ delta_P' = initialize_perturbations.P
  /\ delta_Q' = initialize_perturbations.Q
  /\ delta_writer' = "initialize_perturbations"
  /\ epoch' = epoch + 1
  /\ pc' = "adv_epoch"
  /\ UNCHANGED <<params, optimizer, batch_idx, batches, arguments, tape, forward,
                 attack_locals, predictions, log, returned>>

\* ---- the calls that run in one step
\* recommender_model.execute_adversarial_attack(epsilon=eps)
RunAttack(eps) ==
  /\ pc = "idle"
  /\ \E s \in Shuffles : execute_adversarial_attack(s, eps)
  /\ epsilon' = eps
  /\ returned' = "execute_adversarial_attack"
  /\ UNCHANGED <<optimizer, pc, loops, adversarial_epochs, tape, forward, predictions>>

\* recommender_model.initialize_perturbations()
RunInitializePerturbations ==
  /\ pc = "idle"
  /\ delta_P' = initialize_perturbations.P
  /\ delta_Q' = initialize_perturbations.Q
  /\ delta_writer' = "initialize_perturbations"
  /\ returned' = "initialize_perturbations"
  /\ UNCHANGED <<params, optimizer, pc, loops, arguments, tape, forward, attack_locals,
                 predictions>>

\* recommender_model.evaluator.evaluate(): scores come from get_full_inference
RunEvaluate ==
  /\ pc = "idle"
  /\ predictions' = get_full_inference(embedding_P, embedding_Q, delta_P, delta_Q)
  /\ returned' = "evaluate"
  /\ UNCHANGED <<params, optimizer, deltas, pc, loops, arguments, tape, forward,
                 attack_locals>>

\* the steps inside train and adversarial_train
Step ==
  \/ TrainShuffle \/ TrainInference \/ TrainApplyGradients \/ TrainStepEnd \/ TrainReturn
  \/ AdvShuffle \/ AdvCleanInference \/ AdvAttack \/ AdvPerturbedInference
  \/ AdvApplyGradients \/ AdvStepEnd \/ AdvReturn

\* ------------------------------------------------- a caller of the class
Called(step) == log' = Append(log, step)
CanCall == Len(log) < 2 + MaxCalls

CallTrain == CanCall /\ BeginTrain /\ Called("train")
CallEvaluate == CanCall /\ RunEvaluate /\ Called("evaluate")
CallAttack == CanCall /\ (\E eps \in Epsilons : RunAttack(eps)) /\ Called("attack")
CallAdversarialTrain ==
  /\ CanCall
  /\ \E n \in AdvEpochChoices, eps \in TrainEpsilons : BeginAdversarialTrain(n, eps)
  /\ Called("adversarial_train")
CallInitializePerturbations ==
  CanCall /\ RunInitializePerturbations /\ Called("initialize_perturbations")

Next ==
  \/ CallTrain \/ CallEvaluate \/ CallAttack \/ CallAdversarialTrain
  \/ CallInitializePerturbations
  \/ Step

Spec == Init /\ [][Next]_vars

\* ------------------------------------------------------------ the notebook
\* the cells with the second attack before the evaluation of the defended model
NotebookCellsSwapped ==
  <<"train", "evaluate", "attack", "evaluate", "adversarial_train", "attack", "evaluate",
    "evaluate">>
\* the cells below the class definition, in the order they stand in the file
NotebookCells ==
  <<"train", "evaluate", "attack", "evaluate", "adversarial_train", "evaluate", "attack",
    "evaluate">>

CellIs(step) ==
  /\ Len(log) - 2 < Len(NotebookCells)
  /\ NotebookCells[Len(log) - 1] = step

CellTrain == CellIs("train") /\ BeginTrain /\ Called("train")
CellEvaluate == CellIs("evaluate") /\ RunEvaluate /\ Called("evaluate")
CellAttack == CellIs("attack") /\ RunAttack(NotebookEpsilon) /\ Called("attack")
CellAdversarialTrain ==
  /\ CellIs("adversarial_train")
  /\ BeginAdversarialTrain(NotebookAdvEpochs, NotebookEpsilon)
  /\ Called("adversarial_train")

NotebookNext == CellTrain \/ CellEvaluate \/ CellAttack \/ CellAdversarialTrain \/ Step

NotebookSpec == Init /\ [][NotebookNext]_vars

\* ================================================================ claims
AboveFloor(g) == (\E k \in DOMAIN g : Abs(g[k]) >= L2NormRoot) \/ SumSq(g) >= L2NormEpsilon
\* the row's L2 norm is eps, up to one unit of rounding
NormIs(row, eps) ==
  /\ SumSq(row) <= (eps + 1) * (eps + 1)
  /\ eps >= 1 => SumSq(row) >= (eps - 1) * (eps - 1)
NormAtMost(row, eps) == SumSq(row) <= (eps + 1) * (eps + 1)
SameSigns(g, row) ==
  \A k \in DOMAIN g : /\ g[k] > 0 => row[k] >= 0
                      /\ g[k] < 0 => row[k] <= 0
                      /\ g[k] = 0 => row[k] = 0
\* the gradient row and the perturbation row of every user and every item
AttackRows ==
  {<<grad_P[u], delta_P[u]>> : u \in Users} \cup {<<grad_Q[i], delta_Q[i]>> : i \in Items}

NotebookOrder ==
  <<"load_data", "construct_model", "train", "evaluate", "attack", "evaluate",
    "adversarial_train", "evaluate", "attack", "evaluate">>
IsPrefix(a, b) == Len(a) <= Len(b) /\ \A n \in 1..Len(a) : a[n] = b[n]

\* C2: the notebook's steps start in the order load data, construct model,
\* train, evaluate, attack, evaluate, adversarially train, evaluate, attack,
\* evaluate, each once; a step starts only when no method is running; both
\* attacks and the adversarial training take epsilon 0.5; no embedding changes
\* between an attack and the evaluation after it.
C2_LinearScript ==
  /\ [](IsPrefix(log, NotebookOrder))
  /\ [](log[Len(log)] = "attack" => attack_epsilon = NotebookEpsilon)
  /\ [](log[Len(log)] = "adversarial_train" => epsilon = NotebookEpsilon)
  /\ [][/\ log' # log => pc = "idle" /\ Len(log') = Len(log) + 1
        /\ log[Len(log)] = "attack" => UNCHANGED <<embedding_P, embedding_Q>>]_vars

\* the last cell has run
C2_Witness == log = NotebookOrder /\ pc = "idle" /\ returned = "evaluate" /\ iterations > 0

BareScores == get_full_inference(embedding_P, embedding_Q, Zeros(Users, Dims), Zeros(Items, Dims))
Unperturbed ==
  /\ IsZero(delta_P)
  /\ IsZero(delta_Q)
  /\ get_full_inference(embedding_P, embedding_Q, delta_P, delta_Q) = BareScores

\* C3 as stated: whenever adversarial_train has returned, whatever its
\* adversarial_epochs, both perturbations are zero and get_full_inference scores
\* the bare embeddings.
C3_ZeroAfterAdversarialTrain ==
  (pc = "idle" /\ returned = "adversarial_train") => Unperturbed

\* C3 amended: whenever adversarial_train has returned from a call with
\* adversarial_epochs >= 1, both perturbations are zero and get_full_inference
\* scores the bare embeddings.
C3_ZeroAfterAnEpoch ==
  (pc = "idle" /\ returned = "adversarial_train" /\ adversarial_epochs >= 1) => Unperturbed

\* adversarial_train with an epoch has returned from a call made right after an
\* attack that perturbed the model
C3_Witness ==
  /\ pc = "idle" /\ returned = "adversarial_train" /\ adversarial_epochs >= 1
  /\ log[Len(log) - 1] = "attack"
  /\ iterations > 0

ApplySteps == {"train_apply", "adv_apply"}
\* C4: a step changes embedding_P or embedding_Q only if it is the optimizer
\* step of _train_step or _adversarial_train_step, and that step leaves delta_P
\* and delta_Q as they are.
C4_Frame ==
  [][/\ (embedding_P' # embedding_P \/ embedding_Q' # embedding_Q) => pc \in ApplySteps
     /\ pc \in ApplySteps => UNCHANGED <<delta_P, delta_Q>>]_vars

\* the optimizer has stepped, an attack has perturbed the model and an
\* evaluation has run
C4_Witness ==
  /\ iterations > 0
  /\ delta_writer = "execute_adversarial_attack"
  /\ ~IsZero(delta_P)
  /\ predictions # <<>>

\* C5: delta_P has the shape of embedding_P, num_users x embedding_size, and
\* delta_Q the shape of embedding_Q, num_items x embedding_size.
C5_Shapes ==
  /\ Shape(embedding_P) = [rows |-> Users, cols |-> {Dims}]
  /\ Shape(embedding_Q) = [rows |-> Items, cols |-> {Dims}]
  /\ Shape(delta_P) = Shape(embedding_P)
  /\ Shape(delta_Q) = Shape(embedding_Q)

\* the optimizer has stepped and then an attack has written the perturbations
C5_Witness ==
  /\ iterations > 0
  /\ delta_writer = "execute_adversarial_attack"
  /\ ~IsZero(delta_Q)

\* C6: when _adversarial_train_step makes the inferences commented "Model
\* Inference" for a batch, delta_P and delta_Q are all-zero.
C6_CleanInferenceUnperturbed ==
  (pc = "adv_clean" /\ batch_idx < Len(batches)) => IsZero(delta_P) /\ IsZero(delta_Q)

FreshPerturbation ==
  LET z == initialize_perturbations
      g == GradLoss(attack_batch, embedding_P, embedding_Q, z.P, z.Q)
  IN [P |-> Perturbation(g.P, epsilon), Q |-> Perturbation(g.Q, epsilon)]
\* C7: a batch of _adversarial_train_step goes clean inference, attack,
\* adversarial inference, optimizer step, in that order, the optimizer stepping
\* once; and the perturbation under the adversarial inference is the one the
\* attack of this batch computed from the embeddings as they are then.
C7_BatchOrder ==
  /\ []((pc \in {"adv_perturbed", "adv_apply"}) =>
          /\ delta_writer = "execute_adversarial_attack"
          /\ delta_P = FreshPerturbation.P
          /\ delta_Q = FreshPerturbation.Q)
  /\ [](pc = "adv_apply" =>
          /\ Len(tape) = 2
          /\ tape[2].dP = delta_P /\ tape[2].dQ = delta_Q
          /\ tape[2].batch = batches[batch_idx + 1])
  /\ [][/\ pc = "adv_clean" => pc' \in {"adv_attack", "adv_epoch"}
        /\ pc = "adv_attack" =>
             pc' = "adv_perturbed" /\ UNCHANGED <<embedding_P, embedding_Q, iterations>>
        /\ pc = "adv_perturbed" =>
             pc' = "adv_apply" /\ UNCHANGED <<params, deltas, iterations>>
        /\ pc = "adv_apply" =>
             /\ pc' = "adv_clean"
             /\ iterations' = iterations + 1
             /\ batch_idx' = batch_idx + 1]_vars

\* the adversarial inference of a later batch has run on a perturbation other
\* than the one the clean inference of that batch saw
C7_Witness ==
  /\ pc = "adv_apply"
  /\ batch_idx >= 1
  /\ ~IsZero(delta_P)
  /\ tape[1].dP # tape[2].dP

Results == {result, result_adver, attack_result}
\* C8: every clipped score difference lies in [-80, 1e8], equals the raw
\* difference where that lies in the interval, and its negation, which softplus
\* takes, is at most 80.
C8_Clipped ==
  /\ \A r \in Results : \A b \in DOMAIN r :
       /\ r[b] >= ClipLow /\ r[b] <= ClipHigh
       /\ SoftplusInput(r)[b] <= 80
  /\ \A b \in DOMAIN result :
       LET raw == output_pos[b] - output_neg[b]
       IN /\ raw < ClipLow => result[b] = ClipLow
          /\ (raw >= ClipLow /\ raw <= ClipHigh) => result[b] = raw

\* a raw difference below -80 has been clipped in a training step and in an attack
C8_Witness ==
  /\ \E b \in DOMAIN result : output_pos[b] - output_neg[b] < ClipLow /\ result[b] = ClipLow
  /\ \E b \in DOMAIN attack_result : attack_result[b] = ClipLow
  /\ \E b \in DOMAIN result_adver : result_adver[b] = ClipLow
====
